---- MODULE Spec2Model ----
(***************************************************************************)
(* Token vesting program (multi-token-vesting): the schedule and           *)
(* participant records, the three instruction handlers Initialize          *)
(* (CreateSchedule), AddParticipant (EnrollParticipant) and Claim          *)
(* (ClaimVested), and the integer vesting algorithm of state/schedule.rs.  *)
(*                                                                         *)
(* Machine integers keep their width: an i64 / u64 of the program is a     *)
(* WordBits-bit two's-complement / unsigned word here.  An overflowing     *)
(* + - * wraps in a build without overflow checks and aborts the           *)
(* transaction in a build with them (overflow_checks); a division by zero  *)
(* or an overflowing division aborts in every build.                       *)
(***************************************************************************)
EXTENDS Integers, Sequences, FiniteSets, TLC

VARIABLES
    now,              \* Clock::get().unix_timestamp
    overflow_checks,  \* build profile: TRUE = overflowing arithmetic panics
    schedules,        \* schedule address -> Schedule record (existing accounts)
    participants,     \* participant address -> VestedParticipant record
    tokens,           \* token account address -> amount (existing accounts)
    last,             \* the last invocation: instruction, accounts, data, result
    probe             \* pure-function harness: schedule, times and results

vars == <<now, overflow_checks, schedules, participants, tokens, last, probe>>

(***************************************************************************)
(* Bounds of the model.                                                    *)
(***************************************************************************)
WordBits == 20      \* width of the modelled i64 / u64 words
MaxNow == 6         \* the clock runs 0..MaxNow
MaxProbeTime == 8   \* pure-function harness: times 0..MaxProbeTime

BPS_DENOMINATOR == 10000

\* core::mem::size_of of the types the layouts are made of
size_of_u8 == 1
size_of_u64 == 8
size_of_i64 == 8
size_of_Pubkey == 32

(***************************************************************************)
(* Machine arithmetic.                                                     *)
(***************************************************************************)
RECURSIVE Pow2(_)
Pow2(n) == IF n = 0 THEN 1 ELSE 2 * Pow2(n - 1)

U64_MODULUS == Pow2(WordBits)
U64_MAX == U64_MODULUS - 1
I64_MAX == Pow2(WordBits - 1) - 1
I64_MIN == 0 - Pow2(WordBits - 1)

Abs(x) == IF x < 0 THEN 0 - x ELSE x

\* a value of any size reduced to the unsigned word
WrapU64(x) == x % U64_MODULUS
\* a value of any size reduced to the signed word
WrapI64(x) == LET u == x % U64_MODULUS IN IF u > I64_MAX THEN u - U64_MODULUS ELSE u
InI64(x) == x >= I64_MIN /\ x <= I64_MAX
InU64(x) == x >= 0 /\ x <= U64_MAX

\* exact quotient and remainder of a * b by d (a, b >= 0, d > 0) by doubling:
\* no intermediate value above 2 * d + a
RECURSIVE MulDivMod(_, _, _)
MulDivMod(a, b, d) ==
    IF b = 0 THEN [q |-> 0, r |-> 0]
    ELSE LET h == MulDivMod(a, b \div 2, d)
             dq == (2 * h.q) + ((2 * h.r) \div d)
             dr == (2 * h.r) % d
             add == IF b % 2 = 1 THEN a ELSE 0
         IN  [q |-> dq + ((dr + add) \div d), r |-> (dr + add) % d]

\* (a * b) mod m
MulMod(a, b, m) == MulDivMod(a, b, m).r
\* floor(a * b / d)
MulDivFloor(a, b, d) == MulDivMod(a, b, d).q

\* Rust's / and % on signed integers truncate toward zero
TruncDiv(a, b) ==
    LET q == Abs(a) \div Abs(b)
    IN  IF (a < 0) = (b < 0) THEN q ELSE 0 - q
TruncRem(a, b) ==
    LET r == Abs(a) % Abs(b)
    IN  IF a < 0 THEN 0 - r ELSE r

\* results of a machine operation: the value the wrapping build computes,
\* ovf = the exact result does not fit, abort = panics in every build
Word(v, o, a) == [val |-> v, ovf |-> o, abort |-> a]

AddI64(a, b) == Word(WrapI64(a + b), ~InI64(a + b), FALSE)
SubI64(a, b) == Word(WrapI64(a - b), ~InI64(a - b), FALSE)
MulI64(a, b) ==
    IF a = 0 \/ b = 0 THEN Word(0, FALSE, FALSE)
    ELSE IF Abs(a) <= (I64_MAX + 1) \div Abs(b)
         THEN Word(WrapI64(a * b), ~InI64(a * b), FALSE)
         ELSE LET m == MulMod(Abs(a), Abs(b), U64_MODULUS)
              IN  Word(WrapI64(IF (a < 0) = (b < 0) THEN m ELSE 0 - m), TRUE, FALSE)
DivI64(a, b) ==
    IF b = 0 \/ (a = I64_MIN /\ b = 0 - 1) THEN Word(0, FALSE, TRUE)
    ELSE Word(TruncDiv(a, b), FALSE, FALSE)
RemI64(a, b) ==
    IF b = 0 \/ (a = I64_MIN /\ b = 0 - 1) THEN Word(0, FALSE, TRUE)
    ELSE Word(TruncRem(a, b), FALSE, FALSE)

AddU64(a, b) == Word(WrapU64(a + b), ~InU64(a + b), FALSE)
SubU64(a, b) == Word(WrapU64(a - b), ~InU64(a - b), FALSE)
MulU64(a, b) ==
    Word(MulMod(a, b, U64_MODULUS), a # 0 /\ b > U64_MAX \div a, FALSE)
DivU64(a, b) ==
    IF b = 0 THEN Word(0, FALSE, TRUE) ELSE Word(a \div b, FALSE, FALSE)

\* `x as u64` of an i64 and `x as i64` of a u64: reinterpretation, never a panic
AsU64(x) == WrapU64(x)
AsI64(x) == WrapI64(x)

(***************************************************************************)
(* state/schedule.rs: the vesting algorithm.  A result is [panic, val]:    *)
(* panic = the program aborted while computing it.                         *)
(***************************************************************************)
Panics(w, checked) == w.abort \/ (checked /\ w.ovf)
Value(v) == [panic |-> FALSE, val |-> v]
Panic == [panic |-> TRUE, val |-> 0]


\* is_cliff_completed with the cliff's end counted as completed (>= for >)
is_cliff_completed_at_end(s, t, checked) ==
    LET cliff_end == AddI64(s.cliff_duration, s.start)
    IN  IF Panics(cliff_end, checked) THEN [panic |-> TRUE, val |-> FALSE]
        ELSE [panic |-> FALSE, val |-> t >= cliff_end.val]

is_cliff_completed(s, t, checked) ==
    LET cliff_end == AddI64(s.cliff_duration, s.start)
    IN  IF Panics(cliff_end, checked) THEN [panic |-> TRUE, val |-> FALSE]
        ELSE [panic |-> FALSE, val |-> t > cliff_end.val]

steps_passed_percentage(s, t, bps_denominator, checked) ==
    LET cliff == is_cliff_completed(s, t, checked)
        end == AddI64(s.start, s.total_duration)
        full == MulU64(1, bps_denominator)
        vesting_duration == SubI64(s.total_duration, s.cliff_duration)
        steps_after_cliff == DivI64(vesting_duration.val, s.step_duration)
        total_periods == AddI64(1, steps_after_cliff.val)
        since_start == SubI64(t, s.start)
        elapsed_after_cliff == SubI64(since_start.val, s.cliff_duration)
        periods_after_cliff == DivI64(elapsed_after_cliff.val, s.step_duration)
        periods == AddI64(1, periods_after_cliff.val)
        scaled == MulI64(periods.val, AsI64(bps_denominator))
        result == DivI64(scaled.val, total_periods.val)
    IN  IF cliff.panic THEN Panic
        ELSE IF ~cliff.val THEN Value(0)
        ELSE IF Panics(end, checked) THEN Panic
        ELSE IF t >= end.val
             THEN IF Panics(full, checked) THEN Panic ELSE Value(AsI64(full.val))
        ELSE IF \E w \in {vesting_duration, steps_after_cliff, total_periods,
                           since_start, elapsed_after_cliff, periods_after_cliff,
                           periods, scaled, result} : Panics(w, checked)
             THEN Panic
        ELSE Value(result.val)

\* the timing fields of a schedule
Timing(st, cl, sp, tt) ==
    [start |-> st, cliff_duration |-> cl, step_duration |-> sp, total_duration |-> tt]

\* the harness of the pure-function checks, at rest
ProbeIdle ==
    [s |-> Timing(0, 0, 1, 1), done |-> FALSE, t1 |-> 0, t2 |-> 0,
     r1 |-> Value(0), r2 |-> Value(0)]

(***************************************************************************)
(* Identities and derived addresses.  A public key is a sequence of        *)
(* strings; find_program_address is modelled as an injective tagging of    *)
(* its seeds with the deriving program, with a bump fixed by the seeds.    *)
(***************************************************************************)
Wallets == {<<"w1">>, <<"w2">>}
Mints == {<<"m1">>}                          \* the mint of the schedules explored
MintAccounts == Mints \cup {<<"m2">>}         \* with a mint no schedule uses
Seeds == {0, 1}

PROGRAM_ID == <<"vesting">>
SYSTEM_PROGRAM_ID == <<"system">>
TOKEN_PROGRAM_ID == <<"token">>
ATA_PROGRAM_ID == <<"ata">>
FORGED_PROGRAM_ID == <<"forged">>

\* seed.to_le_bytes()
SeedBytes(seed) == <<ToString(seed)>>

find_program_address(seeds, program_id) ==
    [key |-> <<"pda">> \o program_id \o seeds, bump |-> 255 - (Len(seeds) % 2)]

ScheduleSeeds(seed) == <<"schedule">> \o SeedBytes(seed)
ParticipantSeeds(wallet, schedule) == <<"participant">> \o wallet \o schedule

SchedulePda(seed) == find_program_address(ScheduleSeeds(seed), PROGRAM_ID).key
ParticipantPda(wallet, schedule) ==
    find_program_address(ParticipantSeeds(wallet, schedule), PROGRAM_ID).key
\* get_associated_token_address: seeds owner, token program, mint
AtaOf(owner, token_program, mint) ==
    find_program_address(owner \o token_program \o mint, ATA_PROGRAM_ID).key
Ata(owner, mint) == AtaOf(owner, TOKEN_PROGRAM_ID, mint)

ScheduleKeys == {SchedulePda(seed) : seed \in Seeds}
ParticipantKeys == {ParticipantPda(w, s) : w \in Wallets, s \in ScheduleKeys}
TokenKeys == {Ata(o, m) : o \in Wallets \cup ScheduleKeys, m \in Mints}

(***************************************************************************)
(* The ledger: the accounts a transaction can touch.                       *)
(***************************************************************************)
World == [schedules |-> schedules, participants |-> participants, tokens |-> tokens]

Ok(w) == [err |-> "Ok", world |-> w]
Err(e, w) == [err |-> e, world |-> w]

(***************************************************************************)
(* instructions/helpers.rs: account guards and account creation.           *)
(***************************************************************************)
\* SignerAccount::check accepting an account that did not sign
SignerAccount_check_any(is_signer) == "Ok"

\* SignerAccount::check
SignerAccount_check(is_signer) == IF is_signer THEN "Ok" ELSE "InvalidSigner"

\* MintAccount::check: owned by the token program, with the length of a mint
MintAccount_check(key) == IF key \in MintAccounts THEN "Ok" ELSE "InvalidAccountOwner"

\* Schedule::LEN counting four of the five 8-byte fields
Schedule_LEN_four_words == 2 * size_of_u8 + 2 * size_of_Pubkey + 4 * size_of_i64

\* Schedule::LEN
Schedule_LEN == 2 * size_of_u8 + 2 * size_of_Pubkey + 5 * size_of_i64

\* VestedParticipant::LEN
VestedParticipant_LEN == size_of_u8 + 2 * size_of_Pubkey + 2 * size_of_u64

\* AccountInfo::is_owned_by(&crate::ID): the accounts ProgramAccount::init created
is_owned_by_program(w, key) == key \in DOMAIN w.schedules \cup DOMAIN w.participants

\* AccountInfo::data_len of an account of this program: the space it was
\* created with, T::LEN of its record type
data_len(w, key) == IF key \in DOMAIN w.schedules THEN Schedule_LEN ELSE VestedParticipant_LEN

\* ProgramAccount::check::<T>: owned by this program, T::LEN bytes long
ProgramAccount_check(w, key, len) ==
    IF ~is_owned_by_program(w, key) THEN "InvalidAccountOwner"
    ELSE IF data_len(w, key) # len THEN "InvalidAccountData"
    ELSE "Ok"

\* ProgramAccount::check::<Schedule>
ProgramAccount_check_Schedule(w, key) == ProgramAccount_check(w, key, Schedule_LEN)

\* ProgramAccount::check::<VestedParticipant>
ProgramAccount_check_VestedParticipant(w, key) ==
    ProgramAccount_check(w, key, VestedParticipant_LEN)

\* ProgramAccount::check_program: the handle is the expected callee
ProgramAccount_check_program(key, id) == IF key = id THEN "Ok" ELSE "IncorrectProgramId"

\* ProgramAccount::verify_seeds
ProgramAccount_verify_seeds(seeds, key) ==
    IF key # find_program_address(seeds, PROGRAM_ID).key THEN "InvalidAccountData" ELSE "Ok"

\* ProgramAccount::get_bump
ProgramAccount_get_bump(seeds) == find_program_address(seeds, PROGRAM_ID).bump

\* ProgramAccount::init creating at an address already in use
ProgramAccount_init_ok_in_use(w, key, seeds, bump, system_program) ==
    /\ system_program = SYSTEM_PROGRAM_ID
    /\ key = find_program_address(seeds, PROGRAM_ID).key
    /\ bump = find_program_address(seeds, PROGRAM_ID).bump

\* ProgramAccount::init: CreateAccount signed with seeds and bump.  The runtime
\* finds the callee among the handles of the invocation; the system program
\* refuses an address in use and a signature that does not derive it.
ProgramAccount_init_ok(w, key, seeds, bump, system_program) ==
    /\ system_program = SYSTEM_PROGRAM_ID
    /\ key \notin DOMAIN w.schedules
    /\ key \notin DOMAIN w.participants
    /\ key \notin DOMAIN w.tokens
    /\ key = find_program_address(seeds, PROGRAM_ID).key
    /\ bump = find_program_address(seeds, PROGRAM_ID).bump

\* TokenAccount::check: owned by the token program, with the length of a token account
TokenAccount_check(w, key) == IF key \in DOMAIN w.tokens THEN "Ok" ELSE "InvalidAccountOwner"

\* AssociatedTokenAccount::check without the comparison of the address
AssociatedTokenAccount_check_any_address(w, account, authority, mint, token_program) ==
    TokenAccount_check(w, account)

\* AssociatedTokenAccount::check
AssociatedTokenAccount_check(w, account, authority, mint, token_program) ==
    IF TokenAccount_check(w, account) # "Ok" THEN TokenAccount_check(w, account)
    ELSE IF AtaOf(authority, token_program, mint) # account THEN "InvalidAddress"
    ELSE "Ok"

\* AssociatedTokenAccount::init: the associated-token program creates the
\* account of (owner, mint) at its derived address, once, calling the system
\* program and the token program through the handles it is given
AssociatedTokenAccount_init(w, account, mint, owner, system_program, token_program) ==
    IF /\ system_program = SYSTEM_PROGRAM_ID /\ token_program = TOKEN_PROGRAM_ID
       /\ account = AtaOf(owner, token_program, mint)
       /\ mint \in MintAccounts /\ account \notin DOMAIN w.tokens
    THEN Ok([w EXCEPT !.tokens = (account :> [mint |-> mint, owner |-> owner, amount |-> 0]) @@ @])
    ELSE Err("InvalidAccountData", w)

\* AssociatedTokenAccount::init_if_needed: the existing account is checked
\* against the payer, a new one is created for the owner
AssociatedTokenAccount_init_if_needed(w, account, mint, payer, owner, system_program, token_program) ==
    IF AssociatedTokenAccount_check(w, account, payer, mint, token_program) = "Ok" THEN Ok(w)
    ELSE AssociatedTokenAccount_init(w, account, mint, owner, system_program, token_program)

\* pinocchio_token Transfer: both accounts exist with one mint, the authority
\* owns the source, the source holds the amount
Transfer(w, from, to, amount, authority) ==
    IF /\ from \in DOMAIN w.tokens /\ to \in DOMAIN w.tokens
       /\ w.tokens[from].mint = w.tokens[to].mint
       /\ w.tokens[from].owner = authority
       /\ w.tokens[from].amount >= amount
    THEN IF from = to THEN Ok(w)
         ELSE Ok([w EXCEPT !.tokens = [@ EXCEPT ![from].amount = @ - amount,
                                                 ![to].amount = @ + amount]])
    ELSE Err("TransferFailed", w)

(***************************************************************************)
(* instructions/initialize.rs: Initialize (CreateSchedule), tag 0.         *)
(* ix: the account handles and the decoded payload of the invocation.      *)
(***************************************************************************)
InitializeAccounts_try_from(w, ix) ==
    IF SignerAccount_check(ix.is_signer) # "Ok" THEN Err(SignerAccount_check(ix.is_signer), w)
    ELSE IF MintAccount_check(ix.mint) # "Ok" THEN Err(MintAccount_check(ix.mint), w)
    ELSE IF ProgramAccount_check_program(ix.system_program, SYSTEM_PROGRAM_ID) # "Ok"
         THEN Err("IncorrectProgramId", w)
    ELSE IF ProgramAccount_check_program(ix.token_program, TOKEN_PROGRAM_ID) # "Ok"
         THEN Err("IncorrectProgramId", w)
    ELSE AssociatedTokenAccount_init_if_needed(
             w, ix.vault, ix.mint, ix.authority, ix.schedule,
             ix.system_program, ix.token_program)

\* #[repr(C, packed)] InitializeInstructionData: four i64, the u64 seed, the bump
size_of_InitializeInstructionData == 4 * size_of_i64 + size_of_u64 + size_of_u8

\* InitializeInstructionData::try_from rejecting start == now (<= for <)
InitializeInstructionData_try_from_strict(ix, t, checked) ==
    LET span == SubI64(ix.total_duration, ix.cliff_duration)
        rest == RemI64(span.val, ix.step_duration)
    IN  IF ix.data_len # size_of_InitializeInstructionData THEN "InvalidInstructionData"
        ELSE IF ix.start_timestamp <= t THEN "StartTimeInvalid"
        ELSE IF ix.total_duration = 0 \/ ix.step_duration = 0 THEN "DurationInvalid"
        ELSE IF Panics(span, checked) \/ Panics(rest, checked) THEN "Panic"
        ELSE IF rest.val # 0 THEN "DurationInvalid"
        ELSE "Ok"

InitializeInstructionData_try_from(ix, t, checked) ==
    LET span == SubI64(ix.total_duration, ix.cliff_duration)
        rest == RemI64(span.val, ix.step_duration)
    IN  IF ix.data_len # size_of_InitializeInstructionData THEN "InvalidInstructionData"
        ELSE IF ix.start_timestamp < t THEN "StartTimeInvalid"
        ELSE IF ix.total_duration = 0 \/ ix.step_duration = 0 THEN "DurationInvalid"
        ELSE IF Panics(span, checked) \/ Panics(rest, checked) THEN "Panic"
        ELSE IF rest.val # 0 THEN "DurationInvalid"
        ELSE "Ok"

Initialize_checks(accounts, ix, data, seeds) ==
    IF accounts.err # "Ok" THEN accounts
    ELSE IF data # "Ok" THEN Err(data, accounts.world)
    ELSE IF seeds # "Ok" THEN Err(seeds, accounts.world)
    ELSE accounts

Initialize_try_from(w, ix, t, checked) ==
    Initialize_checks(InitializeAccounts_try_from(w, ix), ix,
                      InitializeInstructionData_try_from(ix, t, checked),
                      ProgramAccount_verify_seeds(ScheduleSeeds(ix.seed), ix.schedule))

\* Schedule::set_inner
Schedule_set_inner(mint, authority, seed, start, cliff_duration, step_duration, total_duration, bump) ==
    [mint |-> mint, authority |-> authority, seed |-> seed, start |-> start,
     cliff_duration |-> cliff_duration, step_duration |-> step_duration,
     total_duration |-> total_duration, bump |-> bump]

\* Initialize::process writing the record without creating the account
Initialize_process_overwrites(w, ix) ==
    Ok([w EXCEPT !.schedules =
           (ix.schedule :> Schedule_set_inner(
               ix.mint, ix.authority, ix.seed, ix.start_timestamp, ix.cliff_duration,
               ix.step_duration, ix.total_duration, ix.bump)) @@ @])

\* Initialize::process signing with the derived bump and storing the payload's
Initialize_process_derives_bump(w, ix) ==
    IF ~ProgramAccount_init_ok(w, ix.schedule, ScheduleSeeds(ix.seed),
                               ProgramAccount_get_bump(ScheduleSeeds(ix.seed)),
                               ix.system_program)
    THEN Err("CreateAccountFailed", w)
    ELSE Ok([w EXCEPT !.schedules =
                (ix.schedule :> Schedule_set_inner(
                    ix.mint, ix.authority, ix.seed, ix.start_timestamp, ix.cliff_duration,
                    ix.step_duration, ix.total_duration, ix.bump)) @@ @])

Initialize_process(w, ix) ==
    IF ~ProgramAccount_init_ok(w, ix.schedule, ScheduleSeeds(ix.seed), ix.bump,
                               ix.system_program)
    THEN Err("CreateAccountFailed", w)
    ELSE Ok([w EXCEPT !.schedules =
                (ix.schedule :> Schedule_set_inner(
                    ix.mint, ix.authority, ix.seed, ix.start_timestamp, ix.cliff_duration,
                    ix.step_duration, ix.total_duration, ix.bump)) @@ @])

\* the handler: Initialize::try_from((data, accounts))?.process()
Initialize_run(parsed, ix) ==
    IF parsed.err # "Ok" THEN parsed ELSE Initialize_process(parsed.world, ix)

InitializeHandler(w, ix, t, checked) == Initialize_run(Initialize_try_from(w, ix, t, checked), ix)

(***************************************************************************)
(* instructions/add_participant.rs: AddParticipant (EnrollParticipant),    *)
(* tag 1.                                                                  *)
(***************************************************************************)
AddParticipantAccounts_try_from(w, ix) ==
    IF SignerAccount_check(ix.is_signer) # "Ok" THEN SignerAccount_check(ix.is_signer)
    ELSE IF ProgramAccount_check_Schedule(w, ix.schedule) # "Ok"
         THEN ProgramAccount_check_Schedule(w, ix.schedule)
    ELSE MintAccount_check(ix.mint)

\* #[repr(C, packed)] AddParticipantInstructionData: the u64 allocation
size_of_AddParticipantInstructionData == size_of_u64

\* AddParticipantInstructionData::try_from accepting an allocation of 0
AddParticipantInstructionData_try_from_any(ix) ==
    IF ix.data_len # size_of_AddParticipantInstructionData THEN "InvalidInstructionData"
    ELSE "Ok"

AddParticipantInstructionData_try_from(ix) ==
    IF ix.data_len # size_of_AddParticipantInstructionData THEN "InvalidInstructionData"
    ELSE IF ix.token_allocation_amount = 0 THEN "InvalidInstructionData"
    ELSE "Ok"

AddParticipant_try_from(w, ix, t, checked) ==
    LET accounts == AddParticipantAccounts_try_from(w, ix)
        data == AddParticipantInstructionData_try_from(ix)
        schedule == w.schedules[ix.schedule]
        cliff == is_cliff_completed(schedule, t, checked)
        seeds == ProgramAccount_verify_seeds(
                     ParticipantSeeds(ix.participant_wallet, ix.schedule),
                     ix.vested_participant)
        source == AssociatedTokenAccount_check(
                      w, ix.authority_ata, ix.authority, ix.mint, ix.token_program)
        vault == AssociatedTokenAccount_check(
                     w, ix.vault, ix.schedule, ix.mint, ix.token_program)
    IN  IF accounts # "Ok" THEN accounts
        ELSE IF data # "Ok" THEN data
        ELSE IF cliff.panic THEN "Panic"
        ELSE IF cliff.val THEN "CannotAddParticipantAfterCliff"
        ELSE IF schedule.authority # ix.authority THEN "IllegalOwner"
        ELSE IF ix.mint # schedule.mint THEN "InvalidAccountData"
        ELSE IF seeds # "Ok" THEN seeds
        ELSE IF source # "Ok" THEN source
        ELSE IF w.tokens[ix.authority_ata].amount < ix.token_allocation_amount
             THEN "InsufficientFunds"
        ELSE vault

\* VestedParticipant::set_inner with the two amounts exchanged
VestedParticipant_set_inner_swapped(schedule, wallet, allocated_amount, claimed_amount) ==
    [schedule |-> schedule, participant |-> wallet,
     allocated_amount |-> claimed_amount, claimed_amount |-> allocated_amount]

\* VestedParticipant::set_inner
VestedParticipant_set_inner(schedule, wallet, allocated_amount, claimed_amount) ==
    [schedule |-> schedule, participant |-> wallet,
     allocated_amount |-> allocated_amount, claimed_amount |-> claimed_amount]

\* AddParticipant::process writing the record without creating the account
AddParticipant_process_overwrites(w, ix) ==
    Transfer([w EXCEPT !.participants =
                 (ix.vested_participant :> VestedParticipant_set_inner(
                     ix.schedule, ix.participant_wallet,
                     ix.token_allocation_amount, 0)) @@ @],
             ix.authority_ata, ix.vault, ix.token_allocation_amount, ix.authority)

\* AddParticipant::process storing the authority as the record's participant
AddParticipant_process_stores_authority(w, ix) ==
    LET seeds == ParticipantSeeds(ix.participant_wallet, ix.schedule)
        created == [w EXCEPT !.participants =
                       (ix.vested_participant :> VestedParticipant_set_inner(
                           ix.schedule, ix.authority,
                           ix.token_allocation_amount, 0)) @@ @]
    IN  IF ~ProgramAccount_init_ok(w, ix.vested_participant, seeds,
                                   ProgramAccount_get_bump(seeds), ix.system_program)
        THEN Err("CreateAccountFailed", w)
        ELSE Transfer(created, ix.authority_ata, ix.vault,
                      ix.token_allocation_amount, ix.authority)

AddParticipant_process(w, ix) ==
    LET seeds == ParticipantSeeds(ix.participant_wallet, ix.schedule)
        created == [w EXCEPT !.participants =
                       (ix.vested_participant :> VestedParticipant_set_inner(
                           ix.schedule, ix.participant_wallet,
                           ix.token_allocation_amount, 0)) @@ @]
    IN  IF ~ProgramAccount_init_ok(w, ix.vested_participant, seeds,
                                   ProgramAccount_get_bump(seeds), ix.system_program)
        THEN Err("CreateAccountFailed", w)
        ELSE Transfer(created, ix.authority_ata, ix.vault,
                      ix.token_allocation_amount, ix.authority)

\* the handler: AddParticipant::try_from((data, accounts))?.process()
AddParticipant_run(parsed, w, ix) ==
    IF parsed # "Ok" THEN Err(parsed, w) ELSE AddParticipant_process(w, ix)

AddParticipantHandler(w, ix, t, checked) ==
    AddParticipant_run(AddParticipant_try_from(w, ix, t, checked), w, ix)

(***************************************************************************)
(* instructions/claim.rs: Claim (ClaimVested), tag 2.                      *)
(***************************************************************************)

\* is_claim_finalized comparing with > for ==
is_claim_finalized_beyond(p) == p.claimed_amount > p.allocated_amount

\* VestedParticipant::is_claim_finalized
is_claim_finalized(p) == p.claimed_amount = p.allocated_amount

\* ClaimAccounts::try_from without the signer check
ClaimAccounts_try_from_unsigned(w, ix) ==
    IF ProgramAccount_check_VestedParticipant(w, ix.vested_participant) # "Ok"
    THEN ProgramAccount_check_VestedParticipant(w, ix.vested_participant)
    ELSE IF ProgramAccount_check_Schedule(w, ix.schedule) # "Ok"
         THEN ProgramAccount_check_Schedule(w, ix.schedule)
    ELSE MintAccount_check(ix.mint)

ClaimAccounts_try_from(w, ix) ==
    IF SignerAccount_check(ix.is_signer) # "Ok" THEN SignerAccount_check(ix.is_signer)
    ELSE IF ProgramAccount_check_VestedParticipant(w, ix.vested_participant) # "Ok"
         THEN ProgramAccount_check_VestedParticipant(w, ix.vested_participant)
    ELSE IF ProgramAccount_check_Schedule(w, ix.schedule) # "Ok"
         THEN ProgramAccount_check_Schedule(w, ix.schedule)
    ELSE MintAccount_check(ix.mint)

\* Claim::try_from without the comparison of the mint and the schedule with
\* the records
Claim_try_from_unmatched(w, ix, t, checked) ==
    LET accounts == ClaimAccounts_try_from(w, ix)
        schedule == w.schedules[ix.schedule]
        vested_participant == w.participants[ix.vested_participant]
        cliff == is_cliff_completed(schedule, t, checked)
        vault == AssociatedTokenAccount_check(
                     w, ix.vault, ix.schedule, ix.mint, ix.token_program)
        receiving == AssociatedTokenAccount_init_if_needed(
                         w, ix.participant_ata, ix.mint, ix.participant_wallet,
                         ix.participant_wallet, ix.system_program, ix.token_program)
        seeds == ProgramAccount_verify_seeds(
                     ParticipantSeeds(ix.participant_wallet, ix.schedule),
                     ix.vested_participant)
    IN  IF accounts # "Ok" THEN Err(accounts, w)
        ELSE IF cliff.panic THEN Err("Panic", w)
        ELSE IF ~cliff.val THEN Err("CannotClaimBeforeCliff", w)
        ELSE IF is_claim_finalized(vested_participant) THEN Err("CannotDoubleClaim", w)
        ELSE IF vested_participant.participant # ix.participant_wallet
             THEN Err("InvalidSigner", w)
        ELSE IF vested_participant.schedule # ix.schedule THEN Err("InvalidSigner", w)
        ELSE IF vault # "Ok" THEN Err(vault, w)
        ELSE IF receiving.err # "Ok" THEN receiving
        ELSE IF seeds # "Ok" THEN Err(seeds, receiving.world)
        ELSE receiving

\* Claim::try_from
Claim_try_from(w, ix, t, checked) ==
    LET accounts == ClaimAccounts_try_from(w, ix)
        schedule == w.schedules[ix.schedule]
        vested_participant == w.participants[ix.vested_participant]
        cliff == is_cliff_completed(schedule, t, checked)
        vault == AssociatedTokenAccount_check(
                     w, ix.vault, ix.schedule, ix.mint, ix.token_program)
        receiving == AssociatedTokenAccount_init_if_needed(
                         w, ix.participant_ata, ix.mint, ix.participant_wallet,
                         ix.participant_wallet, ix.system_program, ix.token_program)
        seeds == ProgramAccount_verify_seeds(
                     ParticipantSeeds(ix.participant_wallet, ix.schedule),
                     ix.vested_participant)
    IN  IF accounts # "Ok" THEN Err(accounts, w)
        ELSE IF cliff.panic THEN Err("Panic", w)
        ELSE IF ~cliff.val THEN Err("CannotClaimBeforeCliff", w)
        ELSE IF ix.mint # schedule.mint \/ ix.schedule # vested_participant.schedule
             THEN Err("InvalidAccountData", w)
        ELSE IF is_claim_finalized(vested_participant) THEN Err("CannotDoubleClaim", w)
        ELSE IF vested_participant.participant # ix.participant_wallet
             THEN Err("InvalidSigner", w)
        ELSE IF vested_participant.schedule # ix.schedule THEN Err("InvalidSigner", w)
        ELSE IF vault # "Ok" THEN Err(vault, w)
        ELSE IF receiving.err # "Ok" THEN receiving
        ELSE IF seeds # "Ok" THEN Err(seeds, receiving.world)
        ELSE receiving

\* the first block of Claim::process: the amount this claim settles, from the
\* vested fraction bps = steps_passed_percentage(BPS_DENOMINATOR)
ClaimAmountOf(vested_participant, bps, checked) ==
    LET product == MulU64(vested_participant.allocated_amount, AsU64(bps.val))
        possible_claim_amount == DivU64(product.val, BPS_DENOMINATOR)
        claim_amount == SubU64(possible_claim_amount.val, vested_participant.claimed_amount)
    IN  IF bps.panic \/ Panics(product, checked) \/ Panics(possible_claim_amount, checked)
           \/ Panics(claim_amount, checked)
        THEN Panic
        ELSE Value(claim_amount.val)

ClaimAmount(schedule, vested_participant, t, checked) ==
    ClaimAmountOf(vested_participant,
                  steps_passed_percentage(schedule, t, BPS_DENOMINATOR, checked), checked)


\* Claim_update without the over-claim guard
Claim_update_unguarded(paid, ix, vested_participant, total_claimed_amount, checked) ==
    IF paid.err # "Ok" THEN paid
    ELSE IF Panics(total_claimed_amount, checked) THEN Err("Panic", paid.world)
    ELSE Ok([paid.world EXCEPT
               !.participants[ix.vested_participant].claimed_amount =
                   total_claimed_amount.val])

\* Claim_update storing the running total in allocated_amount
Claim_update_wrong_field(paid, ix, vested_participant, total_claimed_amount, checked) ==
    IF paid.err # "Ok" THEN paid
    ELSE IF Panics(total_claimed_amount, checked) THEN Err("Panic", paid.world)
    ELSE IF total_claimed_amount.val > vested_participant.allocated_amount
         THEN Err("ClaimAmountOverflow", paid.world)
    ELSE Ok([paid.world EXCEPT
               !.participants[ix.vested_participant].allocated_amount =
                   total_claimed_amount.val])

\* the end of Claim::process: after the transfer, the guarded update of the record
Claim_update(paid, ix, vested_participant, total_claimed_amount, checked) ==
    IF paid.err # "Ok" THEN paid
    ELSE IF Panics(total_claimed_amount, checked) THEN Err("Panic", paid.world)
    ELSE IF total_claimed_amount.val > vested_participant.allocated_amount
         THEN Err("ClaimAmountOverflow", paid.world)
    ELSE Ok([paid.world EXCEPT
               !.participants[ix.vested_participant].claimed_amount =
                   total_claimed_amount.val])


\* Claim_settle storing the amount of this claim for the running total
Claim_settle_stores_amount(w, ix, vested_participant, claim_amount, checked) ==
    IF claim_amount.panic THEN Err("Panic", w)
    ELSE IF claim_amount.val = 0 THEN Err("ClaimAmountInvalid", w)
    ELSE IF w.tokens[ix.vault].amount < claim_amount.val THEN Err("InsufficientFunds", w)
    ELSE Claim_update(
             Transfer(w, ix.vault, ix.participant_ata, claim_amount.val, ix.schedule),
             ix, vested_participant, Word(claim_amount.val, FALSE, FALSE), checked)

\* Claim_settle refusing a claim that empties the pooled account (<= for <)
Claim_settle_needs_surplus(w, ix, vested_participant, claim_amount, checked) ==
    IF claim_amount.panic THEN Err("Panic", w)
    ELSE IF claim_amount.val = 0 THEN Err("ClaimAmountInvalid", w)
    ELSE IF w.tokens[ix.vault].amount <= claim_amount.val THEN Err("InsufficientFunds", w)
    ELSE Claim_update(
             Transfer(w, ix.vault, ix.participant_ata, claim_amount.val, ix.schedule),
             ix, vested_participant,
             AddU64(vested_participant.claimed_amount, claim_amount.val), checked)

\* the middle of Claim::process: the checks on the amount, then the transfer
Claim_settle(w, ix, vested_participant, claim_amount, checked) ==
    IF claim_amount.panic THEN Err("Panic", w)
    ELSE IF claim_amount.val = 0 THEN Err("ClaimAmountInvalid", w)
    ELSE IF w.tokens[ix.vault].amount < claim_amount.val THEN Err("InsufficientFunds", w)
    ELSE Claim_update(
             Transfer(w, ix.vault, ix.participant_ata, claim_amount.val, ix.schedule),
             ix, vested_participant,
             AddU64(vested_participant.claimed_amount, claim_amount.val), checked)

Claim_process(w, ix, t, checked) ==
    Claim_settle(w, ix, w.participants[ix.vested_participant],
                 ClaimAmount(w.schedules[ix.schedule],
                             w.participants[ix.vested_participant], t, checked),
                 checked)

\* the handler: Claim::try_from(accounts)?.process()
Claim_run(parsed, ix, t, checked) ==
    IF parsed.err # "Ok" THEN parsed ELSE Claim_process(parsed.world, ix, t, checked)

ClaimHandler(w, ix, t, checked) == Claim_run(Claim_try_from(w, ix, t, checked), ix, t, checked)

(***************************************************************************)
(* lib.rs: the entrypoint.  The handler selected by the tag runs on the    *)
(* transaction's view of the accounts; the ledger keeps the handler's      *)
(* writes only when it returns Ok.                                         *)
(***************************************************************************)
\* the DISCRIMINATOR of each instruction
Initialize_DISCRIMINATOR == 0
AddParticipant_DISCRIMINATOR == 1
Claim_DISCRIMINATOR == 2

\* process_instruction whose default arm accepts the buffer and does nothing
process_instruction_lenient(w, instruction_data, ix, t, checked) ==
    IF instruction_data = << >> THEN Ok(w)
    ELSE CASE Head(instruction_data) = Initialize_DISCRIMINATOR ->
                  InitializeHandler(w, ix, t, checked)
           [] Head(instruction_data) = AddParticipant_DISCRIMINATOR ->
                  AddParticipantHandler(w, ix, t, checked)
           [] Head(instruction_data) = Claim_DISCRIMINATOR -> ClaimHandler(w, ix, t, checked)
           [] OTHER -> Ok(w)

\* process_instruction: instruction_data.split_first() selects the handler by
\* the first byte.  instruction_data holds the tag byte; the payload that
\* follows it is ix.data_len bytes long and decodes to the payload fields of
\* ix, which the Claim arm does not look at.
process_instruction(w, instruction_data, ix, t, checked) ==
    IF instruction_data = << >> THEN Err("InvalidInstructionData", w)
    ELSE CASE Head(instruction_data) = Initialize_DISCRIMINATOR ->
                  InitializeHandler(w, ix, t, checked)
           [] Head(instruction_data) = AddParticipant_DISCRIMINATOR ->
                  AddParticipantHandler(w, ix, t, checked)
           [] Head(instruction_data) = Claim_DISCRIMINATOR -> ClaimHandler(w, ix, t, checked)
           [] OTHER -> Err("InvalidInstructionData", w)

\* the buffer of each instruction begins with its DISCRIMINATOR
Tagged(op) ==
    CASE op = "Initialize" -> <<Initialize_DISCRIMINATOR>>
      [] op = "AddParticipant" -> <<AddParticipant_DISCRIMINATOR>>
      [] op = "Claim" -> <<Claim_DISCRIMINATOR>>


\* Committed keeping the writes of a failed handler
Committed_on_error(w, out) == out.world

\* the runtime keeps the writes of an invocation only when it returns Ok
Committed(w, out) == IF out.err = "Ok" THEN out.world ELSE w

\* what the invocation returns in the current state
Outcome(op, ix) == process_instruction(World, Tagged(op), ix, now, overflow_checks)

\* the record an invocation is about
TargetKey(op, ix) == IF op = "Initialize" THEN ix.schedule ELSE ix.vested_participant

\* the ledger after the invocation; last records the last invocation that
\* succeeded, a failed one leaves no trace
Record(op, ix, out, after) ==
    /\ schedules' = after.schedules
    /\ participants' = after.participants
    /\ tokens' = after.tokens
    /\ last' = IF out.err = "Ok" THEN [op |-> op, key |-> TargetKey(op, ix)] ELSE last

Ledger(op, ix, out) == Record(op, ix, out, Committed(World, out))

(***************************************************************************)
(* The invocations explored: the well-formed invocation of each caller,    *)
(* and that invocation with one handle or flag replaced.                   *)
(***************************************************************************)
InitialFunds == 600
\* the allocation of the invocations with a replaced handle; with a fraction
\* of -10000 its wrapped product divides to the allocation itself
VariantAmount == 52
LargeAmount == 500   \* an allocation whose product with the fraction leaves the word
Amounts == {0, VariantAmount, LargeAmount}
Funded == {<<"w1">>}

\* start, cliff_duration, step_duration, total_duration of the explored payloads
StandardTiming == Timing(0, 1, 2, 5)   \* cliff, then two steps
InitTimings ==
    { StandardTiming,
      Timing(0, 0, 0 - 2, 4),      \* negative step
      Timing(0, 0, 0 - 2, 6),      \* negative step, three periods
      Timing(0, 0, 0 - 2, 2),      \* negative step, no period
      Timing(1, I64_MAX, 1, 1),    \* start + cliff beyond the word
      Timing(0, 0, 2, 5),          \* steps do not divide
      Timing(0, 0, 2, 0) }         \* no duration

\* the creations explored: every payload under seed 1 by the funded wallet,
\* the standard payload under seed 0 by each wallet
InitializeCases ==
    {[authority |-> a, seed |-> 1, mint |-> m, timing |-> tm] :
        a \in Funded, m \in Mints, tm \in InitTimings}
    \cup {[authority |-> a, seed |-> 0, mint |-> m, timing |-> StandardTiming] :
        a \in Wallets, m \in Mints}

InitializeIx(a, seed, m, tm) ==
    [authority |-> a, is_signer |-> TRUE, schedule |-> SchedulePda(seed), mint |-> m,
     vault |-> Ata(SchedulePda(seed), m),
     system_program |-> SYSTEM_PROGRAM_ID, token_program |-> TOKEN_PROGRAM_ID,
     start_timestamp |-> tm.start, cliff_duration |-> tm.cliff_duration,
     step_duration |-> tm.step_duration, total_duration |-> tm.total_duration,
     seed |-> seed, bump |-> ProgramAccount_get_bump(ScheduleSeeds(seed)),
     data_len |-> size_of_InitializeInstructionData]

InitializeVariants(ix) ==
    {ix, [ix EXCEPT !.is_signer = FALSE], [ix EXCEPT !.bump = 255 - @],
     [ix EXCEPT !.data_len = @ - 1], [ix EXCEPT !.data_len = @ + 1],
     [ix EXCEPT !.vault = Ata(ix.authority, ix.mint)],
     [ix EXCEPT !.system_program = FORGED_PROGRAM_ID],
     [ix EXCEPT !.token_program = FORGED_PROGRAM_ID]}
    \cup {[ix EXCEPT !.schedule = k] : k \in ScheduleKeys}

AddParticipantIx(a, pw, sk, m, amount) ==
    [authority |-> a, is_signer |-> TRUE, authority_ata |-> Ata(a, m),
     vault |-> Ata(sk, m), participant_wallet |-> pw,
     vested_participant |-> ParticipantPda(pw, sk), schedule |-> sk, mint |-> m,
     system_program |-> SYSTEM_PROGRAM_ID, token_program |-> TOKEN_PROGRAM_ID,
     token_allocation_amount |-> amount,
     data_len |-> size_of_AddParticipantInstructionData]

AddParticipantVariants(ix) ==
    {ix, [ix EXCEPT !.is_signer = FALSE],
     [ix EXCEPT !.data_len = @ - 1], [ix EXCEPT !.data_len = @ + 1],
     [ix EXCEPT !.vault = ix.authority_ata],
     [ix EXCEPT !.system_program = FORGED_PROGRAM_ID],
     [ix EXCEPT !.token_program = FORGED_PROGRAM_ID]}
    \cup {[ix EXCEPT !.vested_participant = k] : k \in ParticipantKeys}

ClaimIx(pw, sk, m) ==
    [participant_wallet |-> pw, is_signer |-> TRUE,
     vested_participant |-> ParticipantPda(pw, sk), participant_ata |-> Ata(pw, m),
     vault |-> Ata(sk, m), schedule |-> sk, mint |-> m,
     system_program |-> SYSTEM_PROGRAM_ID, token_program |-> TOKEN_PROGRAM_ID,
     data_len |-> 0]

ClaimVariants(ix) ==
    {ix, [ix EXCEPT !.is_signer = FALSE],
     [ix EXCEPT !.data_len = @ + 1],
     [ix EXCEPT !.vault = ix.participant_ata],
     [ix EXCEPT !.system_program = FORGED_PROGRAM_ID],
     [ix EXCEPT !.token_program = FORGED_PROGRAM_ID]}
    \cup {[ix EXCEPT !.mint = m] : m \in MintAccounts}
    \cup {[ix EXCEPT !.vested_participant = k] : k \in ParticipantKeys}
    \cup {[ix EXCEPT !.schedule = k] : k \in ScheduleKeys}
    \cup {[ix EXCEPT !.participant_ata = Ata(o, ix.mint)] : o \in Wallets}

Init ==
    /\ now = 0
    /\ overflow_checks \in BOOLEAN
    /\ schedules = << >>
    /\ participants = << >>
    /\ tokens = [k \in {Ata(a, m) : a \in Funded, m \in Mints} |->
                    [mint |-> CHOOSE m \in Mints : \E a \in Funded : k = Ata(a, m),
                     owner |-> CHOOSE a \in Funded : \E m \in Mints : k = Ata(a, m),
                     amount |-> InitialFunds]]
    /\ last = [op |-> "none"]
    /\ probe = ProbeIdle

Initialize ==
    \E c \in InitializeCases :
        \E ix \in (IF c.timing = StandardTiming
                   THEN InitializeVariants(InitializeIx(c.authority, c.seed, c.mint, c.timing))
                   ELSE {InitializeIx(c.authority, c.seed, c.mint, c.timing)}) :
            /\ Ledger("Initialize", ix, Outcome("Initialize", ix))
            /\ UNCHANGED <<now, overflow_checks, probe>>

AddParticipant ==
    \E a \in Wallets, pw \in Wallets, sk \in ScheduleKeys, m \in Mints, amount \in Amounts :
        \E ix \in (IF amount = VariantAmount
                   THEN AddParticipantVariants(AddParticipantIx(a, pw, sk, m, amount))
                   ELSE {AddParticipantIx(a, pw, sk, m, amount)}) :
            /\ Ledger("AddParticipant", ix, Outcome("AddParticipant", ix))
            /\ UNCHANGED <<now, overflow_checks, probe>>

Claim ==
    \E pw \in Wallets, sk \in ScheduleKeys, m \in Mints :
        \E ix \in ClaimVariants(ClaimIx(pw, sk, m)) :
            /\ Ledger("Claim", ix, Outcome("Claim", ix))
            /\ UNCHANGED <<now, overflow_checks, probe>>

\* the clock advances
Tick ==
    /\ now < MaxNow
    /\ now' = now + 1
    /\ last' = [op |-> "Tick"]
    /\ UNCHANGED <<overflow_checks, schedules, participants, tokens, probe>>

Next == Initialize \/ AddParticipant \/ Claim \/ Tick

Spec == Init /\ [][Next]_vars

\* the well-formed claim of the participant pw on the schedule sk
ClaimBy(pw, sk) ==
    \E m \in Mints :
        /\ Ledger("Claim", ClaimIx(pw, sk, m), Outcome("Claim", ClaimIx(pw, sk, m)))
        /\ UNCHANGED <<now, overflow_checks, probe>>

\* the well-formed claim of pw on sk can succeed: the enabling condition of
\* ClaimBy(pw, sk)
CanClaim(pw, sk) == \E m \in Mints : Outcome("Claim", ClaimIx(pw, sk, m)).err = "Ok"

\* weak fairness of ClaimBy(pw, sk), WF_vars(ClaimBy(pw, sk)) written out with
\* its enabling condition: a claim that can succeed from some time on is made
ClaimFairness(pw, sk) == []<>(~CanClaim(pw, sk)) \/ []<><<ClaimBy(pw, sk)>>_vars

\* the ledger under a clock that keeps advancing and participants who submit
\* their claim for as long as it can succeed
SpecLive == Init /\ [][Next]_vars /\ WF_vars(Tick) /\ \A pw \in Wallets, sk \in ScheduleKeys : ClaimFairness(pw, sk)

(***************************************************************************)
(* Harness for the vesting algorithm as a pure function: a schedule's      *)
(* timing fields and the build are drawn at Init, ProbeEvaluate applies    *)
(* steps_passed_percentage at two times.                                   *)
(***************************************************************************)
ProbeStarts == {0, 1, 2}
ProbeCliffs == {0 - 2, 0, 1, 2, 3, I64_MAX, I64_MIN}
ProbeSteps == {0 - 2, 1, 2, 3}
ProbeTotals == {0 - 2, 1, 2, 3, 4, 5, 6}
ProbeTimes == 0..MaxProbeTime

ProbeInit ==
    /\ now = 0
    /\ overflow_checks \in BOOLEAN
    /\ schedules = << >>
    /\ participants = << >>
    /\ tokens = << >>
    /\ last = [op |-> "none"]
    /\ \E st \in ProbeStarts, cl \in ProbeCliffs, sp \in ProbeSteps, tt \in ProbeTotals :
           probe = [ProbeIdle EXCEPT !.s = Timing(st, cl, sp, tt)]

ProbeEvaluate ==
    /\ ~probe.done
    /\ \E t1 \in ProbeTimes, t2 \in ProbeTimes :
           probe' = [probe EXCEPT
                       !.done = TRUE, !.t1 = t1, !.t2 = t2,
                       !.r1 = steps_passed_percentage(probe.s, t1, BPS_DENOMINATOR, overflow_checks),
                       !.r2 = steps_passed_percentage(probe.s, t2, BPS_DENOMINATOR, overflow_checks)]
    /\ UNCHANGED <<now, overflow_checks, schedules, participants, tokens, last>>

ProbeNext == ProbeEvaluate

SpecVest == ProbeInit /\ [][ProbeNext]_vars

(***************************************************************************)
(* Reference definitions of the specification, in exact integers.          *)
(***************************************************************************)
\* the schedule invariants of the data model (total > 0, step > 0, whole steps)
ValidTiming(s) ==
    /\ s.total_duration > 0
    /\ s.step_duration > 0
    /\ (s.total_duration - s.cliff_duration) % s.step_duration = 0

\* the reference value of the vested fraction of a valid schedule at time t
vestedFractionBps(s, t) ==
    IF t <= s.start + s.cliff_duration THEN 0
    ELSE IF t >= s.start + s.total_duration THEN BPS_DENOMINATOR
    ELSE MulDivFloor(1 + ((t - s.start - s.cliff_duration) \div s.step_duration),
                     BPS_DENOMINATOR,
                     1 + ((s.total_duration - s.cliff_duration) \div s.step_duration))

\* floor(allocated_amount * vestedFractionBps(t) / 10000)
totalVested(s, p, t) ==
    MulDivFloor(p.allocated_amount, vestedFractionBps(s, t), BPS_DENOMINATOR)

\* the balance of a token account, 0 while it does not exist
BalanceIn(tk, key) == IF key \in DOMAIN tk THEN tk[key].amount ELSE 0

\* the well-formed invocations of every caller
Enrollments ==
    {AddParticipantIx(a, pw, sk, m, amount) :
        a \in Wallets, pw \in Wallets, sk \in ScheduleKeys, m \in Mints, amount \in Amounts}
Claims == {ClaimIx(pw, sk, m) : pw \in Wallets, sk \in ScheduleKeys, m \in Mints}
\* every claim explored, a replaced handle or flag included
ClaimInputs == UNION {ClaimVariants(ix) : ix \in Claims}
EnrollInputs == UNION {AddParticipantVariants(ix) : ix \in Enrollments}
InitializeInputs ==
    UNION {InitializeVariants(InitializeIx(c.authority, c.seed, c.mint, c.timing)) :
              c \in InitializeCases}

\* a step in which a ClaimVested succeeded
ClaimSucceeds ==
    /\ last'.op = "Claim"
    /\ participants' # participants

(***************************************************************************)
(* Claims.                                                                 *)
(***************************************************************************)
\* C1: in every reachable state every participant record has
\* claimed_amount <= allocated_amount
C1_ClaimedWithinAllocated ==
    \A k \in DOMAIN participants :
        participants[k].claimed_amount <= participants[k].allocated_amount

\* a claim has just paid a record in part
C1_Witness ==
    /\ last.op = "Claim"
    /\ participants[last.key].claimed_amount > 0
    /\ participants[last.key].claimed_amount < participants[last.key].allocated_amount

\* C2: after a successful ClaimVested at time now on a valid schedule the
\* record's claimed_amount is floor(allocated_amount * vestedFractionBps(now) /
\* 10000) and the receiving account has grown by that value minus the
\* claimed_amount before the call
C2_ClaimSettlesVested ==
    [][ClaimSucceeds =>
          LET k == last'.key
              p == participants[k]
              s == schedules[p.schedule]
              receiving == Ata(p.participant, s.mint)
          IN  ValidTiming(s) =>
                /\ participants'[k].claimed_amount = totalVested(s, p, now)
                /\ BalanceIn(tokens', receiving) - BalanceIn(tokens, receiving)
                       = totalVested(s, p, now) - p.claimed_amount]_vars

\* C3: for a valid schedule the vested fraction is monotone non-decreasing in
\* time and lies in [0, bpsDenominator]
C3_MonotoneBounded ==
    (probe.done /\ ValidTiming(probe.s) /\ ~probe.r1.panic /\ ~probe.r2.panic) =>
        /\ probe.r1.val >= 0 /\ probe.r1.val <= BPS_DENOMINATOR
        /\ (probe.t1 <= probe.t2 => probe.r1.val <= probe.r2.val)

\* C4: for a valid schedule and every time, steps_passed_percentage returns
\* the reference value (0 up to the cliff's end, bpsDenominator from the
\* schedule's end, the floor of the period ratio in between)
C4_ReturnsReference ==
    (probe.done /\ ValidTiming(probe.s)) =>
        probe.r1 = Value(vestedFractionBps(probe.s, probe.t1))

\* every precondition of EnrollParticipant other than the time
EnrollPreconditions(ix) ==
    /\ ix.schedule \in DOMAIN schedules
    /\ schedules[ix.schedule].authority = ix.authority
    /\ schedules[ix.schedule].mint = ix.mint
    /\ ix.token_allocation_amount > 0
    /\ ix.vested_participant \notin DOMAIN participants
    /\ ix.vault \in DOMAIN tokens
    /\ BalanceIn(tokens, ix.authority_ata) >= ix.token_allocation_amount

\* no record and no balance differs from the current ledger
Untouched(w) == w = World

\* C5 as stated: with every other precondition satisfied the enrollment
\* succeeds iff now < start + cliff_duration; from now == start + cliff_duration
\* on it fails with the enrollment-closed error and creates no record
C5_EnrollsStrictlyBeforeCliffEnd ==
    \A ix \in Enrollments :
        EnrollPreconditions(ix) =>
            LET s == schedules[ix.schedule]
                out == Outcome("AddParticipant", ix)
            IN  /\ (out.err = "Ok") <=> (now < s.start + s.cliff_duration)
                /\ (now >= s.start + s.cliff_duration) =>
                       /\ out.err = "CannotAddParticipantAfterCliff"
                       /\ Untouched(Committed(World, out))

\* C5 amended: with every other precondition satisfied the enrollment
\* succeeds iff the 64-bit sum cliff_duration + start is computed without
\* abort and now <= that sum, the instant now == start + cliff_duration
\* included; when now is greater than the sum it fails with the
\* enrollment-closed error; a failed enrollment creates no record
C5_EnrollsUntilCliffEnd ==
    \A ix \in Enrollments :
        EnrollPreconditions(ix) =>
            LET s == schedules[ix.schedule]
                cliff_end == AddI64(s.cliff_duration, s.start)
                out == Outcome("AddParticipant", ix)
            IN  /\ (out.err = "Ok") <=>
                       (~Panics(cliff_end, overflow_checks) /\ now <= cliff_end.val)
                /\ (~Panics(cliff_end, overflow_checks) /\ now > cliff_end.val) =>
                       out.err = "CannotAddParticipantAfterCliff"
                /\ (out.err # "Ok") => Untouched(Committed(World, out))

\* an enrollment has succeeded at now == start + cliff_duration, after the start
C5_Witness ==
    /\ last.op = "AddParticipant"
    /\ now > 0
    /\ LET s == schedules[participants[last.key].schedule]
       IN  now = s.start + s.cliff_duration

\* every precondition of ClaimVested other than the time and the vested amount
ClaimPreconditions(ix) ==
    /\ ix.schedule \in DOMAIN schedules
    /\ ix.vested_participant \in DOMAIN participants
    /\ participants[ix.vested_participant].participant = ix.participant_wallet
    /\ participants[ix.vested_participant].schedule = ix.schedule
    /\ schedules[ix.schedule].mint = ix.mint
    /\ ix.vault \in DOMAIN tokens
    /\ participants[ix.vested_participant].claimed_amount
           # participants[ix.vested_participant].allocated_amount

\* C6: with every other precondition satisfied a claim on a valid schedule
\* succeeds iff now > start + cliff_duration and totalVested - claimed_amount
\* > 0; up to the cliff's end it fails with the before-cliff error, with
\* nothing newly vested with the nothing-newly-vested error
C6_ClaimSucceedsIffNewlyVested ==
    \A ix \in Claims :
        (ClaimPreconditions(ix) /\ ValidTiming(schedules[ix.schedule])) =>
            LET s == schedules[ix.schedule]
                p == participants[ix.vested_participant]
                out == Outcome("Claim", ix)
                after_cliff == now > s.start + s.cliff_duration
                newly == totalVested(s, p, now) - p.claimed_amount
            IN  /\ (out.err = "Ok") <=> (after_cliff /\ newly > 0)
                /\ ~after_cliff => out.err = "CannotClaimBeforeCliff"
                /\ (after_cliff /\ newly <= 0) => out.err = "ClaimAmountInvalid"

\* C7: from one state to the next no participant record disappears, no
\* claimed_amount decreases, and a record with claimed_amount ==
\* allocated_amount does not change
C7_ClaimedOnlyGrows ==
    [][\A k \in DOMAIN participants :
          /\ k \in DOMAIN participants'
          /\ participants'[k].claimed_amount >= participants[k].claimed_amount
          /\ (participants[k].claimed_amount = participants[k].allocated_amount)
                 => participants'[k] = participants[k]]_vars

\* a claim at the schedule's end has just brought a record of a valid
\* schedule to claimed_amount == allocated_amount
C7_Witness ==
    /\ last.op = "Claim"
    /\ participants[last.key].claimed_amount = participants[last.key].allocated_amount
    /\ ValidTiming(schedules[participants[last.key].schedule])

\* the claims that name a fully claimed record
OnFullyClaimed(ix) ==
    /\ ix.vested_participant \in DOMAIN participants
    /\ participants[ix.vested_participant].claimed_amount
           = participants[ix.vested_participant].allocated_amount

\* C8: a ClaimVested on a fully claimed record fails and changes nothing;
\* signed and naming the record's schedule and mint it fails with
\* CannotDoubleClaim, whoever the caller is
C8_FullyClaimedRejects ==
    \A ix \in ClaimInputs :
        OnFullyClaimed(ix) =>
            LET out == Outcome("Claim", ix)
            IN  /\ out.err # "Ok"
                /\ Untouched(Committed(World, out))
                /\ (/\ ix.is_signer
                    /\ ix.schedule = participants[ix.vested_participant].schedule
                    /\ ix.mint = schedules[ix.schedule].mint)
                       => out.err = "CannotDoubleClaim"

\* after the clock has advanced, the participant claims again on their fully
\* claimed record of a valid schedule
C8_Witness ==
    /\ last.op = "Tick"
    /\ \E ix \in Claims :
           /\ OnFullyClaimed(ix)
           /\ ValidTiming(schedules[ix.schedule])
           /\ participants[ix.vested_participant].participant = ix.participant_wallet
           /\ Outcome("Claim", ix).err = "CannotDoubleClaim"

C10_SeedZeroRejected ==
    /\ \A k \in DOMAIN schedules : schedules[k].seed # 0
    /\ \A ix \in InitializeInputs :
           ix.seed = 0 =>
               /\ Outcome("Initialize", ix).err # "Ok"
               /\ Untouched(Committed(World, Outcome("Initialize", ix)))

\* the well-formed CreateSchedule of every explored payload
Creations ==
    {InitializeIx(c.authority, c.seed, c.mint, c.timing) : c \in InitializeCases}

\* the timing fields of a CreateSchedule payload
TimingOf(ix) ==
    Timing(ix.start_timestamp, ix.cliff_duration, ix.step_duration, ix.total_duration)

\* C11: every schedule record has total_duration > 0, step_duration > 0 and
\* whole steps after the cliff, and a CreateSchedule whose payload violates
\* one of these, not rejected for its start, fails with the duration error
C11_SchedulesValid ==
    /\ \A k \in DOMAIN schedules : ValidTiming(schedules[k])
    /\ \A ix \in Creations :
           (~ValidTiming(TimingOf(ix)) /\ ix.start_timestamp >= now)
               => Outcome("Initialize", ix).err = "DurationInvalid"

\* the address and the vault of the schedule are free
CreatePreconditions(ix) ==
    /\ ix.schedule \notin DOMAIN schedules
    /\ ix.vault \notin DOMAIN tokens

\* C12: with every other precondition satisfied CreateSchedule fails with the
\* start-time error iff start < now; a valid payload with start == now or a
\* later start is accepted
C12_StartNotInPast ==
    \A ix \in Creations :
        CreatePreconditions(ix) =>
            /\ (Outcome("Initialize", ix).err = "StartTimeInvalid")
                   <=> (ix.start_timestamp < now)
            /\ (ValidTiming(TimingOf(ix)) /\ ix.start_timestamp >= now)
                   => Outcome("Initialize", ix).err = "Ok"

\* a schedule has just been created at start == now, after time 0, while
\* another payload is refused for its start
C12_Witness ==
    /\ last.op = "Initialize"
    /\ now > 0
    /\ schedules[last.key].start = now
    /\ \E ix \in Creations :
           CreatePreconditions(ix) /\ Outcome("Initialize", ix).err = "StartTimeInvalid"

\* C13: there is at most one participant record per (schedule, participant),
\* and an EnrollParticipant for a pair that has a record fails and changes
\* nothing
C13_OneRecordPerPair ==
    /\ \A k1 \in DOMAIN participants, k2 \in DOMAIN participants :
           (/\ participants[k1].schedule = participants[k2].schedule
            /\ participants[k1].participant = participants[k2].participant) => k1 = k2
    /\ \A ix \in EnrollInputs :
           ParticipantPda(ix.participant_wallet, ix.schedule) \in DOMAIN participants
               => /\ Outcome("AddParticipant", ix).err # "Ok"
                  /\ Untouched(Committed(World, Outcome("AddParticipant", ix)))

\* a second enrollment of a pair passes every guard and is refused at the
\* creation of the record
C13_Witness ==
    \E ix \in Enrollments :
        /\ ix.vested_participant \in DOMAIN participants
        /\ Outcome("AddParticipant", ix).err = "CreateAccountFailed"

\* C14: a CreateSchedule whose seed has a schedule record fails and changes
\* nothing, and no two schedule records have one seed
C14_OneSchedulePerSeed ==
    /\ \A k1 \in DOMAIN schedules, k2 \in DOMAIN schedules :
           schedules[k1].seed = schedules[k2].seed => k1 = k2
    /\ \A ix \in InitializeInputs :
           SchedulePda(ix.seed) \in DOMAIN schedules
               => /\ Outcome("Initialize", ix).err # "Ok"
                  /\ Untouched(Committed(World, Outcome("Initialize", ix)))

\* the valid payload that created a schedule is sent again by its authority
\* while its start is not in the past
C14_Witness ==
    \E ix \in Creations :
        /\ ix.schedule \in DOMAIN schedules
        /\ schedules[ix.schedule].authority = ix.authority
        /\ TimingOf(ix) = Timing(schedules[ix.schedule].start,
                                 schedules[ix.schedule].cliff_duration,
                                 schedules[ix.schedule].step_duration,
                                 schedules[ix.schedule].total_duration)
        /\ ValidTiming(TimingOf(ix))
        /\ ix.start_timestamp >= now
        /\ Outcome("Initialize", ix).err # "Ok"

\* C15: from one state to the next no schedule record is removed and none of
\* its fields changes
C15_ScheduleImmutable ==
    [][\A k \in DOMAIN schedules :
          /\ k \in DOMAIN schedules'
          /\ schedules'[k] = schedules[k]]_vars

\* two schedules exist and a claim has just succeeded
C15_Witness ==
    /\ last.op = "Claim"
    /\ Cardinality(DOMAIN schedules) = 2

\* the caller of the claim signed and is the participant of the record
ClaimByParticipant(ix) ==
    /\ ix.is_signer
    /\ ix.vested_participant \in DOMAIN participants
    /\ participants[ix.vested_participant].participant = ix.participant_wallet

\* C16: a ClaimVested succeeds only when its caller signed and is the
\* participant stored in the record; any other claim against a record fails
\* and changes nothing
C16_OnlyParticipantClaims ==
    \A ix \in ClaimInputs :
        /\ Outcome("Claim", ix).err = "Ok" => ClaimByParticipant(ix)
        /\ (ix.vested_participant \in DOMAIN participants /\ ~ClaimByParticipant(ix))
               => Untouched(Committed(World, Outcome("Claim", ix)))

\* another signer claims against a record that has an amount to claim and is
\* refused for their identity
C16_Witness ==
    \E ix \in ClaimInputs :
        /\ ix.is_signer
        /\ ix.vested_participant \in DOMAIN participants
        /\ participants[ix.vested_participant].participant # ix.participant_wallet
        /\ Outcome("Claim", ix).err = "InvalidSigner"
        /\ \E own \in Claims :
               /\ own.vested_participant = ix.vested_participant
               /\ Outcome("Claim", own).err = "Ok"

\* the caller of the enrollment signed and is the authority of the schedule
EnrollByAuthority(ix) ==
    /\ ix.is_signer
    /\ ix.schedule \in DOMAIN schedules
    /\ schedules[ix.schedule].authority = ix.authority

\* C17: an EnrollParticipant succeeds only when its caller signed and is the
\* authority stored in the schedule; any other enrollment fails and changes
\* nothing, whatever the caller's funds
C17_OnlyAuthorityEnrolls ==
    \A ix \in EnrollInputs :
        /\ Outcome("AddParticipant", ix).err = "Ok" => EnrollByAuthority(ix)
        /\ ~EnrollByAuthority(ix)
               => /\ Outcome("AddParticipant", ix).err # "Ok"
                  /\ Untouched(Committed(World, Outcome("AddParticipant", ix)))

\* a signer with sufficient funds enrolls into the schedule of another
\* authority, before its cliff's end, and is refused for their identity
C17_Witness ==
    \E ix \in Enrollments :
        /\ ix.schedule \in DOMAIN schedules
        /\ schedules[ix.schedule].authority # ix.authority
        /\ ix.token_allocation_amount > 0
        /\ BalanceIn(tokens, ix.authority_ata) >= ix.token_allocation_amount
        /\ Outcome("AddParticipant", ix).err = "IllegalOwner"

\* the ledger w differs from the current one by the enrollment ix: its
\* record is new, the funding account of the caller has given the allocation
\* to the pooled account of (schedule, mint), no other balance has changed
EnrolledIn(w, ix) ==
    /\ ix.vested_participant \notin DOMAIN participants
    /\ ix.vested_participant = ParticipantPda(ix.participant_wallet, ix.schedule)
    /\ DOMAIN w.participants = DOMAIN participants \cup {ix.vested_participant}
    /\ w.participants[ix.vested_participant] =
           [schedule |-> ix.schedule, participant |-> ix.participant_wallet,
            allocated_amount |-> ix.token_allocation_amount, claimed_amount |-> 0]
    /\ \A k \in DOMAIN participants : w.participants[k] = participants[k]
    /\ w.schedules = schedules
    /\ DOMAIN w.tokens = DOMAIN tokens
    /\ \A k \in DOMAIN tokens :
           w.tokens[k].amount =
               IF k = Ata(ix.authority, ix.mint)
               THEN tokens[k].amount - ix.token_allocation_amount
               ELSE IF k = Ata(ix.schedule, ix.mint)
               THEN tokens[k].amount + ix.token_allocation_amount
               ELSE tokens[k].amount

\* C18: a successful EnrollParticipant with allocation a creates the record
\* (schedule, participant, allocated a, claimed 0), takes a from the caller's
\* funding account and adds a to the pooled account derived for (schedule,
\* mint); an enrollment naming another destination fails
C18_EnrollmentEffect ==
    \A ix \in EnrollInputs :
        /\ Outcome("AddParticipant", ix).err = "Ok"
               => EnrolledIn(Committed(World, Outcome("AddParticipant", ix)), ix)
        /\ ix.vault # Ata(ix.schedule, ix.mint)
               => Outcome("AddParticipant", ix).err # "Ok"

\* the large allocation has just been enrolled into a pool that held the
\* small one
C18_Witness ==
    /\ last.op = "AddParticipant"
    /\ participants[last.key].allocated_amount = LargeAmount
    /\ participants[last.key].claimed_amount = 0
    /\ \E m \in Mints :
           BalanceIn(tokens, Ata(participants[last.key].schedule, m))
               = LargeAmount + VariantAmount

\* C19: an EnrollParticipant succeeds only with 0 < allocation <= balance of
\* the caller's funding account; with allocation 0 or above that balance it
\* fails and changes nothing
C19_AllocationWithinFunds ==
    \A ix \in EnrollInputs :
        /\ Outcome("AddParticipant", ix).err = "Ok"
               => /\ ix.token_allocation_amount > 0
                  /\ ix.token_allocation_amount <= BalanceIn(tokens, Ata(ix.authority, ix.mint))
        /\ (\/ ix.token_allocation_amount = 0
            \/ ix.token_allocation_amount > BalanceIn(tokens, Ata(ix.authority, ix.mint)))
               => /\ Outcome("AddParticipant", ix).err # "Ok"
                  /\ Untouched(Committed(World, Outcome("AddParticipant", ix)))

\* an authority that has spent part of its funds enrolls more than it has
\* left and is refused for its balance
C19_Witness ==
    \E ix \in Enrollments :
        /\ BalanceIn(tokens, ix.authority_ata) > 0
        /\ BalanceIn(tokens, ix.authority_ata) < InitialFunds
        /\ ix.token_allocation_amount > BalanceIn(tokens, ix.authority_ata)
        /\ Outcome("AddParticipant", ix).err = "InsufficientFunds"

\* C20: no ClaimVested returns the invariant-violation error
\* ClaimAmountOverflow
C20_NoClaimAmountOverflow ==
    \A ix \in ClaimInputs : Outcome("Claim", ix).err # "ClaimAmountOverflow"

\* the claim second, issued at the same time, executed after the claim first
ClaimAfter(first, second) ==
    process_instruction(Committed(World, Outcome("Claim", first)), Tagged("Claim"), second,
                        now, overflow_checks)

\* two claims of different participants of one schedule
SameScheduleClaims(a, b) ==
    /\ a.schedule = b.schedule
    /\ a.mint = b.mint
    /\ a.participant_wallet # b.participant_wallet

\* C21: two claims issued at the same time by different participants of one
\* schedule do not interfere: each succeeds after the other exactly when it
\* succeeds alone, and when both succeed the two orders end in the same
\* ledger, in which each record and each receiving balance is what its claim
\* alone produces and the pooled account has paid exactly the two amounts
C21_ClaimsCommute ==
    \A a \in Claims, b \in Claims :
        SameScheduleClaims(a, b) =>
            LET alone_a == Outcome("Claim", a)
                alone_b == Outcome("Claim", b)
                ab == ClaimAfter(a, b)
                ba == ClaimAfter(b, a)
            IN  /\ (ab.err = "Ok") <=> (alone_b.err = "Ok")
                /\ (alone_a.err = "Ok" /\ alone_b.err = "Ok") =>
                       /\ ab.world = ba.world
                       /\ ab.world.participants[a.vested_participant]
                              = alone_a.world.participants[a.vested_participant]
                       /\ ab.world.participants[b.vested_participant]
                              = alone_b.world.participants[b.vested_participant]
                       /\ ab.world.tokens[a.participant_ata]
                              = alone_a.world.tokens[a.participant_ata]
                       /\ ab.world.tokens[b.participant_ata]
                              = alone_b.world.tokens[b.participant_ata]
                       /\ tokens[a.vault].amount - ab.world.tokens[a.vault].amount
                              = (tokens[a.vault].amount - alone_a.world.tokens[a.vault].amount)
                                + (tokens[a.vault].amount - alone_b.world.tokens[a.vault].amount)

\* two participants of a valid schedule can both claim now, and the two
\* claims together empty the pooled account
C21_Witness ==
    \E a \in Claims, b \in Claims :
        /\ SameScheduleClaims(a, b)
        /\ Outcome("Claim", a).err = "Ok"
        /\ ValidTiming(schedules[a.schedule])
        /\ ClaimAfter(a, b).err = "Ok"
        /\ ClaimAfter(a, b).world.tokens[a.vault].amount = 0

\* the claim names a mint other than the schedule's, or a schedule other than
\* the one stored in the participant record
Mismatched(ix) ==
    \/ ix.mint # schedules[ix.schedule].mint
    \/ ix.schedule # participants[ix.vested_participant].schedule

\* C22: a ClaimVested whose mint differs from the schedule's mint, or whose
\* schedule is not the one stored in the participant record, fails and changes
\* nothing (with InvalidAccountData once signed and past the cliff of the
\* supplied schedule); a claim that succeeds is paid from the pooled account
\* of the record's own schedule, in that schedule's mint, at the fraction of
\* that schedule's timing
C22_ClaimBoundToSchedule ==
    \A ix \in ClaimInputs :
        (ix.vested_participant \in DOMAIN participants /\ ix.schedule \in DOMAIN schedules) =>
            LET out == Outcome("Claim", ix)
                p == participants[ix.vested_participant]
                cliff == is_cliff_completed(schedules[ix.schedule], now, overflow_checks)
            IN  /\ Mismatched(ix) =>
                       /\ out.err # "Ok"
                       /\ Untouched(Committed(World, out))
                       /\ (ix.is_signer /\ ~cliff.panic /\ cliff.val)
                              => out.err = "InvalidAccountData"
                /\ (out.err = "Ok") =>
                       /\ ix.schedule = p.schedule
                       /\ ix.mint = schedules[p.schedule].mint
                       /\ ix.vault = Ata(p.schedule, schedules[p.schedule].mint)
                       /\ out.world.tokens[ix.vault].amount < tokens[ix.vault].amount
                       /\ out.world.participants[ix.vested_participant].claimed_amount
                              = p.claimed_amount
                                + ClaimAmount(schedules[p.schedule], p, now, overflow_checks).val

\* past the cliff, the participant of an unclaimed record claims with the
\* other mint, and with the other schedule, which also exists and is past its
\* cliff
C22_Witness ==
    \E ix \in Claims :
        /\ Outcome("Claim", ix).err = "Ok"
        /\ Outcome("Claim", [ix EXCEPT !.mint = <<"m2">>]).err = "InvalidAccountData"
        /\ \E k \in DOMAIN schedules :
               /\ k # ix.schedule
               /\ is_cliff_completed(schedules[k], now, overflow_checks).val
               /\ Outcome("Claim", [ix EXCEPT !.schedule = k]).err = "InvalidAccountData"

\* the system-program or token-program handle is not the expected callee
ForgedProgram(ix) ==
    ix.system_program # SYSTEM_PROGRAM_ID \/ ix.token_program # TOKEN_PROGRAM_ID

\* the handler op rejects the invocation ix before any state change
RejectedUnchanged(op, ix) ==
    /\ Outcome(op, ix).err # "Ok"
    /\ Untouched(Outcome(op, ix).world)

\* C23: CreateSchedule, EnrollParticipant and ClaimVested each reject, before
\* any state change, an invocation whose system-program or token-program
\* handle is not the expected callee
C23_ProgramHandlesChecked ==
    /\ \A ix \in InitializeInputs : ForgedProgram(ix) => RejectedUnchanged("Initialize", ix)
    /\ \A ix \in EnrollInputs : ForgedProgram(ix) => RejectedUnchanged("AddParticipant", ix)
    /\ \A ix \in ClaimInputs : ForgedProgram(ix) => RejectedUnchanged("Claim", ix)

\* the invocation returns an error and the ledger keeps nothing of it
Rejected(op, ix) ==
    /\ Outcome(op, ix).err # "Ok"
    /\ Untouched(Committed(World, Outcome(op, ix)))

\* the payload length of each layout
LayoutLength(op) ==
    CASE op = "Initialize" -> 41
      [] op = "AddParticipant" -> 8
      [] op = "Claim" -> 0

\* C24: an instruction is rejected with no state change unless the payload
\* after its tag byte is exactly 41 bytes long for tag 0, 8 bytes for tag 1
\* and 0 bytes for tag 2
C24_PayloadLengthExact ==
    /\ \A ix \in InitializeInputs :
           ix.data_len # LayoutLength("Initialize") => Rejected("Initialize", ix)
    /\ \A ix \in EnrollInputs :
           ix.data_len # LayoutLength("AddParticipant") => Rejected("AddParticipant", ix)
    /\ \A ix \in ClaimInputs :
           ix.data_len # LayoutLength("Claim") => Rejected("Claim", ix)

\* the buffers explored with no handler: empty, and a first byte other than a tag
UnknownBuffers == {<< >>, <<3>>, <<255>>}

\* what the program returns for the buffer on the handles and payload of ix
Dispatched(instruction_data, ix) ==
    process_instruction(World, instruction_data, ix, now, overflow_checks)

\* C25: an empty buffer and a buffer whose first byte is not 0, 1 or 2 are
\* rejected with InvalidInstructionData and change nothing, whatever handles
\* and payload come with them; tag 0 runs CreateSchedule, tag 1
\* EnrollParticipant and tag 2 ClaimVested
C25_DispatchByTag ==
    /\ \A ix \in InitializeInputs \cup EnrollInputs \cup ClaimInputs :
           \A instruction_data \in UnknownBuffers :
               /\ Dispatched(instruction_data, ix).err = "InvalidInstructionData"
               /\ Untouched(Dispatched(instruction_data, ix).world)
    /\ \A ix \in InitializeInputs :
           Dispatched(<<0>>, ix) = InitializeHandler(World, ix, now, overflow_checks)
    /\ \A ix \in EnrollInputs :
           Dispatched(<<1>>, ix) = AddParticipantHandler(World, ix, now, overflow_checks)
    /\ \A ix \in ClaimInputs :
           Dispatched(<<2>>, ix) = ClaimHandler(World, ix, now, overflow_checks)

\* a claim that succeeds under tag 2 is sent in an empty buffer and under the
\* first bytes 3 and 255
C25_Witness ==
    \E ix \in Claims :
        /\ Dispatched(<<2>>, ix).err = "Ok"
        /\ \A instruction_data \in UnknownBuffers :
               Dispatched(instruction_data, ix).err = "InvalidInstructionData"

\* every schedule record is schedule_len bytes long and every participant
\* record participant_len bytes, and the size guard of a schedule passes
\* exactly the accounts of the first length
RecordLengths(schedule_len, participant_len) ==
    /\ \A k \in DOMAIN schedules :
           /\ data_len(World, k) = schedule_len
           /\ ProgramAccount_check(World, k, schedule_len) = "Ok"
    /\ \A k \in DOMAIN participants :
           /\ data_len(World, k) = participant_len
           /\ ProgramAccount_check(World, k, participant_len) = "Ok"
           /\ ProgramAccount_check_Schedule(World, k) = "InvalidAccountData"
    /\ \A k \in ScheduleKeys \cup ParticipantKeys :
           (ProgramAccount_check_Schedule(World, k) = "Ok") <=>
               (is_owned_by_program(World, k) /\ data_len(World, k) = schedule_len)

Fractions == {0, 1, 3333, 5000, 6666, BPS_DENOMINATOR}

\* C27: for every allocation that EnrollParticipant has accepted and every
\* vested fraction in [0, 10000] the product allocated_amount * fraction fits
\* the unsigned word, and the total the claim computes from it, in either
\* build, is the exact floor(allocated_amount * fraction / 10000)
C27_ProductNeverOverflows ==
    \A k \in DOMAIN participants :
        \A bps \in Fractions :
            LET p == participants[k]
            IN  /\ ~MulU64(p.allocated_amount, bps).ovf
                /\ ClaimAmountOf([p EXCEPT !.claimed_amount = 0], Value(bps), overflow_checks)
                       = Value(MulDivFloor(p.allocated_amount, bps, BPS_DENOMINATOR))

\* the number of whole steps between the cliff's end and t
StepWindow(s, t) == (t - (s.start + s.cliff_duration)) \div s.step_duration

\* 1 + (total_duration - cliff_duration) / step_duration: the cliff counts as
\* one period
totalPeriods(s) == 1 + ((s.total_duration - s.cliff_duration) \div s.step_duration)

\* C28: for a valid schedule the vested fraction is 0 at every now <= start +
\* cliff_duration, is floor(bpsDenominator / totalPeriods) for start +
\* cliff_duration < now < start + cliff_duration + step_duration, and has one
\* value on each window start + cliff_duration + k*step_duration <= now <
\* start + cliff_duration + (k+1)*step_duration
C28_StepFunction ==
    (probe.done /\ ValidTiming(probe.s)) =>
        LET s == probe.s
            cliff_end == s.start + s.cliff_duration
        IN  /\ probe.t1 <= cliff_end => probe.r1 = Value(0)
            /\ (cliff_end < probe.t1 /\ probe.t1 < cliff_end + s.step_duration) =>
                   /\ totalPeriods(s) > 0
                   /\ probe.r1 = Value(BPS_DENOMINATOR \div totalPeriods(s))
            /\ (/\ cliff_end < probe.t1
                /\ cliff_end < probe.t2
                /\ StepWindow(s, probe.t1) = StepWindow(s, probe.t2))
                   => probe.r1 = probe.r2

\* the sum of allocated_amount - claimed_amount over the records keys
RECURSIVE Outstanding(_)
Outstanding(keys) ==
    IF keys = {} THEN 0
    ELSE LET k == CHOOSE x \in keys : TRUE
         IN  (participants[k].allocated_amount - participants[k].claimed_amount)
             + Outstanding(keys \ {k})

\* the participant records of the schedule
RecordsOf(schedule) == {k \in DOMAIN participants : participants[k].schedule = schedule}

\* the pooled account of every schedule holds the sum, over the schedule's
\* participant records, of allocated_amount - claimed_amount
PoolHoldsOutstanding ==
    \A k \in DOMAIN schedules :
        BalanceIn(tokens, Ata(k, schedules[k].mint)) = Outstanding(RecordsOf(k))

\* C29: in every reachable state the pooled account of each schedule holds
\* exactly the sum of allocated_amount - claimed_amount over the schedule's
\* participant records, and no ClaimVested returns the
\* insufficient-pooled-balance error
C29_PoolCoversClaims ==
    /\ PoolHoldsOutstanding
    /\ \A ix \in ClaimInputs : Outcome("Claim", ix).err # "InsufficientFunds"

\* C30: a successful ClaimVested moves assets only from the pooled account of
\* the record's schedule to the associated account of (the record's
\* participant, the schedule's mint): the receiving balance grows by exactly
\* the growth of claimed_amount, the pooled balance falls by it, and no other
\* token account changes or appears
C30_ClaimPaysOwnAccount ==
    [][ClaimSucceeds =>
          LET k == last'.key
              p == participants[k]
              s == schedules[p.schedule]
              vault == Ata(p.schedule, s.mint)
              receiving == Ata(p.participant, s.mint)
              paid == participants'[k].claimed_amount - p.claimed_amount
          IN  /\ paid > 0
              /\ receiving \in DOMAIN tokens'
              /\ vault \in DOMAIN tokens
              /\ tokens'[receiving].owner = p.participant
              /\ tokens'[receiving].amount = BalanceIn(tokens, receiving) + paid
              /\ tokens'[vault].amount = tokens[vault].amount - paid
              /\ \A a \in DOMAIN tokens' \ {vault, receiving} :
                     a \in DOMAIN tokens /\ tokens'[a] = tokens[a]]_vars

\* a claim has just paid a participant who held nothing before, next to a
\* funded account of another wallet
C30_Witness ==
    /\ last.op = "Claim"
    /\ LET p == participants[last.key]
           receiving == Ata(p.participant, schedules[p.schedule].mint)
       IN  /\ p.claimed_amount > 0
           /\ tokens[receiving].amount = p.claimed_amount
           /\ \E a \in DOMAIN tokens : a # receiving /\ tokens[a].owner \in Wallets

\* C31: a successful ClaimVested changes, of the records, only claimed_amount
\* of the caller's own participant record: that record's allocated_amount,
\* schedule and participant, every other participant record and every
\* schedule record stay as they were, and of the balances only the pooled
\* account and the caller's receiving account change; under every transition
\* allocated_amount of an existing record stays as enrolled
C31_ClaimFrame ==
    [][/\ \A k \in DOMAIN participants :
             /\ k \in DOMAIN participants'
             /\ participants'[k].allocated_amount = participants[k].allocated_amount
       /\ ClaimSucceeds =>
             LET k == last'.key
                 p == participants[k]
                 mint == schedules[p.schedule].mint
             IN  /\ schedules' = schedules
                 /\ DOMAIN participants' = DOMAIN participants
                 /\ \A o \in DOMAIN participants \ {k} : participants'[o] = participants[o]
                 /\ participants'[k] =
                        [p EXCEPT !.claimed_amount = participants'[k].claimed_amount]
                 /\ participants'[k].claimed_amount # p.claimed_amount
                 /\ \A a \in DOMAIN tokens' \ {Ata(p.schedule, mint), Ata(p.participant, mint)} :
                        a \in DOMAIN tokens /\ tokens'[a] = tokens[a]]_vars

\* a claim has just paid one of two participant records of a schedule, the
\* other record being partly claimed already
C31_Witness ==
    /\ last.op = "Claim"
    /\ participants[last.key].claimed_amount > 0
    /\ \E o \in DOMAIN participants \ {last.key} :
           /\ participants[o].schedule = participants[last.key].schedule
           /\ participants[o].claimed_amount > 0
           /\ participants[o].claimed_amount < participants[o].allocated_amount

\* the bump find_program_address returns for the schedule seeds of seed
DerivedBump(seed) == find_program_address(ScheduleSeeds(seed), PROGRAM_ID).bump

\* C32: the bump stored in every schedule record is the bump the derivation
\* from ("schedule", the record's seed) returns, that derivation giving the
\* record's address; a CreateSchedule whose bump byte differs from the
\* derived bump of its seed fails and creates no record
C32_StoredBumpDerived ==
    /\ \A k \in DOMAIN schedules :
           /\ find_program_address(ScheduleSeeds(schedules[k].seed), PROGRAM_ID).key = k
           /\ schedules[k].bump = DerivedBump(schedules[k].seed)
    /\ \A ix \in InitializeInputs :
           ix.bump # DerivedBump(ix.seed) => Rejected("Initialize", ix)

\* a schedule has just been created, and the creation of another one, which
\* succeeds with the derived bump, is sent with another bump byte
C32_Witness ==
    /\ last.op = "Initialize"
    /\ \E ix \in InitializeInputs :
           /\ ix.bump # DerivedBump(ix.seed)
           /\ Outcome("Initialize", [ix EXCEPT !.bump = DerivedBump(ix.seed)]).err = "Ok"
           /\ Outcome("Initialize", ix).err = "CreateAccountFailed"

\* C33: every participant record is stored at the address derived from
\* ("participant", the record's participant, the record's schedule), and the
\* record's schedule is the address of an existing schedule record
C33_RecordAtDerivedAddress ==
    \A k \in DOMAIN participants :
        /\ k = find_program_address(
                   ParticipantSeeds(participants[k].participant, participants[k].schedule),
                   PROGRAM_ID).key
        /\ participants[k].schedule \in DOMAIN schedules
        /\ ProgramAccount_check_Schedule(World, participants[k].schedule) = "Ok"

\* an authority has just enrolled a participant other than itself, while
\* another schedule exists
C33_Witness ==
    /\ last.op = "AddParticipant"
    /\ participants[last.key].participant
           # schedules[participants[last.key].schedule].authority
    /\ DOMAIN schedules # {participants[last.key].schedule}

\* the total Claim::process computes for the record at the current time:
\* (allocated_amount * bps as u64) / BPS_DENOMINATOR, and whether the
\* computation gets as far as the subtraction of claimed_amount
PossibleClaimAmount(s, p) ==
    LET bps == steps_passed_percentage(s, now, BPS_DENOMINATOR, overflow_checks)
        product == MulU64(p.allocated_amount, AsU64(bps.val))
    IN  [reached |-> ~bps.panic /\ ~Panics(product, overflow_checks),
         val |-> DivU64(product.val, BPS_DENOMINATOR).val]

\* C34: whenever a ClaimVested that has passed its guards computes
\* claim_amount = possible_claim_amount - claimed_amount, possible_claim_amount
\* >= claimed_amount: the unsigned subtraction does not underflow
C34_NoUnderflow ==
    \A ix \in ClaimInputs :
        Claim_try_from(World, ix, now, overflow_checks).err = "Ok" =>
            LET p == participants[ix.vested_participant]
                possible == PossibleClaimAmount(schedules[ix.schedule], p)
            IN  possible.reached => possible.val >= p.claimed_amount

\* the record k is fully claimed in the ledger's participant records ps
FullyClaimed(ps, k) == k \in DOMAIN ps /\ is_claim_finalized(ps[k])

\* while the clock is before start + total_duration of its schedule no
\* participant record has claimed_amount == allocated_amount
NotFullBeforeEnd ==
    \A k \in DOMAIN participants :
        LET s == schedules[participants[k].schedule]
        IN  now < s.start + s.total_duration
                => participants[k].claimed_amount < participants[k].allocated_amount

\* a record becomes fully claimed only in a step that is a successful
\* ClaimVested on it at now >= start + total_duration
FullOnlyByFinalClaim ==
    \A k \in DOMAIN participants' :
        (FullyClaimed(participants', k) /\ ~FullyClaimed(participants, k)) =>
            /\ last'.op = "Claim"
            /\ last'.key = k
            /\ k \in DOMAIN participants
            /\ now >= schedules[participants[k].schedule].start
                          + schedules[participants[k].schedule].total_duration

\* C35: a participant record reaches claimed_amount == allocated_amount only
\* through a ClaimVested executed at now >= start + total_duration, and in
\* every state whose clock is before start + total_duration every record of
\* the schedule has claimed_amount < allocated_amount
C35_FullOnlyAtEnd == []NotFullBeforeEnd /\ [][FullOnlyByFinalClaim]_vars

\* the sums and the difference that is_cliff_completed and
\* steps_passed_percentage evaluate on the schedule s at time t all fit i64
TimingInRange(s, t) ==
    /\ ~AddI64(s.cliff_duration, s.start).ovf
    /\ ~AddI64(s.start, s.total_duration).ovf
    /\ ~SubI64(t, s.start).ovf
    /\ ~SubI64(SubI64(t, s.start).val, s.cliff_duration).ovf

\* C37: for every schedule CreateSchedule accepted, start + cliff_duration,
\* start + total_duration and now - start - cliff_duration stay within the
\* signed 64-bit range at every time EnrollParticipant or ClaimVested can run
C37_TimingSumsInRange == \A k \in DOMAIN schedules : TimingInRange(schedules[k], now)

\* the record k exists and the clock has passed both start + cliff_duration
\* and start + total_duration of its schedule
VestingOver(k) ==
    /\ k \in DOMAIN participants
    /\ now > schedules[participants[k].schedule].start
                + schedules[participants[k].schedule].cliff_duration
    /\ now >= schedules[participants[k].schedule].start
                + schedules[participants[k].schedule].total_duration

\* C36: once the clock has passed start + cliff_duration and
\* start + total_duration, with the participant's claim attempted under weak
\* fairness, every enrolled record eventually reaches
\* claimed_amount == allocated_amount, whatever was claimed before
C36_EventuallyFullyClaimed ==
    \A k \in ParticipantKeys : VestingOver(k) ~> FullyClaimed(participants, k)
====
